---- MODULE Spec2Model ----
(***************************************************************************)
(* Model of contrib/forseti-ia/resources/firewall_rule.py: the flattening  *)
(* of one firewall-rule resource (FirewallRule.from_json) and the port     *)
(* range expansion (FirewallRule._flatten_ports).                          *)
(*                                                                         *)
(* Python strings that the code splits, parses or upper-cases are modelled *)
(* as sequences of one-character strings, so that str.split, int() and     *)
(* str.upper are computed character by character.  A parsed JSON object is *)
(* a function whose DOMAIN is the set of keys present.  A call either      *)
(* returns a value or raises a Python exception.                           *)
(***************************************************************************)
EXTENDS Integers, Sequences, FiniteSets, TLC

VARIABLES pc, op, json_dict, ports, order, result

vars == <<pc, op, json_dict, ports, order, result>>

(***************************************************************************)
(* Bounds of the model.                                                    *)
(***************************************************************************)
MaxPortSpecs == 2
MaxIdentifiers == 2
MaxCidrs == 2
MaxEntries == 2

(***************************************************************************)
(* Outcomes of a call.                                                     *)
(***************************************************************************)
Return(v) == [status |-> "return", value |-> v]
Raise(e) == [status |-> "raise", exc |-> e]
Pending == [status |-> "pending"]

Returned(r) == r.status = "return"
Raised(r) == r.status = "raise"

(***************************************************************************)
(* Sequences and Python built-ins.                                         *)
(***************************************************************************)
Range(s) == {s[i] : i \in DOMAIN s}

Min(S) == CHOOSE m \in S : \A n \in S : m <= n
Max(S) == CHOOSE m \in S : \A n \in S : m >= n

\* range(start, stop) with the last element left out as well.
PyRange_ShortByOne(start, stop) == [i \in 1..(stop - start - 1) |-> start + i - 1]

\* range(start, stop): start, start+1, ..., stop-1; empty when stop <= start.
PyRange(start, stop) == [i \in 1..(stop - start) |-> start + i - 1]

Digits == {"0", "1", "2", "3", "4", "5", "6", "7", "8", "9"}

DigitVal(c) ==
  CASE c = "0" -> 0 [] c = "1" -> 1 [] c = "2" -> 2 [] c = "3" -> 3
    [] c = "4" -> 4 [] c = "5" -> 5 [] c = "6" -> 6 [] c = "7" -> 7
    [] c = "8" -> 8 [] c = "9" -> 9

RECURSIVE DecimalValue(_)
DecimalValue(s) ==
  IF s = <<>> THEN 0
  ELSE 10 * DecimalValue(SubSeq(s, 1, Len(s) - 1)) + DigitVal(s[Len(s)])

\* int(s) for a string without blanks or underscores: an optional sign
\* followed by at least one digit, anything else is a ValueError.
PyInt(s) ==
  LET signed == s # <<>> /\ s[1] \in {"+", "-"}
      body == IF signed THEN Tail(s) ELSE s
  IN  IF body # <<>> /\ \A i \in DOMAIN body : body[i] \in Digits
        THEN Return(IF signed /\ s[1] = "-" THEN 0 - DecimalValue(body)
                    ELSE DecimalValue(body))
        ELSE Raise("ValueError")

\* s.split(sep) for a one-character separator.
RECURSIVE Split(_, _)
Split(s, sep) ==
  IF \E i \in DOMAIN s : s[i] = sep
    THEN LET i == Min({j \in DOMAIN s : s[j] = sep})
         IN  <<SubSeq(s, 1, i - 1)>> \o Split(SubSeq(s, i + 1, Len(s)), sep)
    ELSE <<s>>

UpperChar(c) ==
  CASE c = "i" -> "I" [] c = "n" -> "N" [] c = "g" -> "G" [] c = "r" -> "R"
    [] c = "e" -> "E" [] c = "s" -> "S" [] OTHER -> c

\* s.upper()
Upper(s) == [i \in DOMAIN s |-> UpperChar(s[i])]

\* list(set(xs)): the elements of xs without duplicates.  The iteration
\* order of a Python set is unspecified; the model takes it ascending or
\* descending and the order is an input of every call.
Orders == {"asc", "desc"}

RECURSIVE SortedList(_, _)
SortedList(S, ord) ==
  IF S = {} THEN <<>>
  ELSE LET m == IF ord = "asc" THEN Min(S) ELSE Max(S)
       IN  <<m>> \o SortedList(S \ {m}, ord)

ListOfSet(xs, ord) == SortedList(Range(xs), ord)

\* dict.get(key, default)
Get(d, k, default) == IF k \in DOMAIN d THEN d[k] ELSE default

None == <<"None">>
JStr(s) == <<"str", s>>
JBool(b) == <<"bool", b>>
JNum(n) == <<"num", n>>

(***************************************************************************)
(* FirewallRule._flatten_ports                                             *)
(***************************************************************************)
\* One iteration of the loop over ports: the integers the token adds.
PortExpansion(port) ==
  IF \E i \in DOMAIN port : port[i] = "-"
    THEN LET port_range == Split(port, "-")
             start == PyInt(port_range[1])
             end == PyInt(port_range[2])
         IN  IF Raised(start) THEN start
             ELSE IF Raised(end) THEN end
             ELSE Return(PyRange(start.value, end.value + 1))
    ELSE LET single == PyInt(port)
         IN  IF Raised(single) THEN single ELSE Return(<<single.value>>)

RECURSIVE FlattenLoop(_, _, _)
FlattenLoop(ps, i, flattened_ports) ==
  IF i > Len(ps) THEN Return(flattened_ports)
  ELSE LET r == PortExpansion(ps[i])
       IN  IF Raised(r) THEN r
           ELSE FlattenLoop(ps, i + 1, flattened_ports \o r.value)

\* Max port is 65535.
MaxPort == 65535

\* _flatten_ports with the all-ports default for an empty result.
_flatten_ports_AllPorts(ps, ord) ==
  LET r == FlattenLoop(ps, 1, <<>>)
  IN  IF Raised(r) THEN r
      ELSE IF r.value = <<>> THEN Return([i \in 1..(MaxPort + 1) |-> i - 1])
      ELSE Return(ListOfSet(r.value, ord))

_flatten_ports(ps, ord) ==
  LET r == FlattenLoop(ps, 1, <<>>)
  IN  IF Raised(r) THEN r ELSE Return(ListOfSet(r.value, ord))

(***************************************************************************)
(* FirewallRule.__init__ and FirewallRule.from_json                        *)
(***************************************************************************)
FirewallRule(creation_timestamp, priority, ip_addr, ip_bits, identifier, action, ip_protocol, flattened_ports, direction, disabled) ==
  [creation_timestamp |-> creation_timestamp,
   priority |-> priority,
   ip_addr |-> ip_addr,
   ip_bits |-> ip_bits,
   identifier |-> identifier,
   action |-> action,
   ip_protocol |-> ip_protocol,
   ports |-> flattened_ports,
   direction |-> direction,
   disabled |-> disabled]

INGRESS == <<"I", "N", "G", "R", "E", "S", "S">>

\* The action with "denied" taking precedence.
ActionOf_DeniedFirst(d) == IF "denied" \in DOMAIN d THEN "denied" ELSE "allowed"

\* action = 'allowed'; if action not in json_dict: action = 'denied'
ActionOf(d) == IF "allowed" \in DOMAIN d THEN "allowed" ELSE "denied"

\* The identifier list with targetTags taking precedence.
IdentifiersOf_TagsFirst(d) ==
  IF "targetTags" \in DOMAIN d THEN d["targetTags"]
  ELSE IF "targetServiceAccounts" \in DOMAIN d THEN d["targetServiceAccounts"]
  ELSE <<>>

\* The identifier list: targetServiceAccounts, else targetTags, else [].
IdentifiersOf(d) ==
  IF "targetServiceAccounts" \in DOMAIN d THEN d["targetServiceAccounts"]
  ELSE IF "targetTags" \in DOMAIN d THEN d["targetTags"]
  ELSE <<>>

\* The range key selected by an exact comparison, without upper().
RangeKeyOf_CaseSensitive(direction) ==
  IF direction = INGRESS THEN "sourceRanges" ELSE "destinationRanges"

\* The key of the range list the direction selects.
RangeKeyOf(direction) ==
  IF Upper(direction) = INGRESS THEN "sourceRanges" ELSE "destinationRanges"

\* disabled = False if json_dict.get('disabled') == 'false' else True
DisabledOf(d) == IF Get(d, "disabled", None) = JStr("false") THEN FALSE ELSE TRUE

\* Only the first protocol name of the entry.
ProtocolsOf_FirstOnly(protocol_mapping) ==
  LET ip_protocols == Get(protocol_mapping, "IPProtocol", <<>>)
  IN  IF ip_protocols = <<>> THEN <<>> ELSE <<ip_protocols[1]>>

\* ip_protocols = protocol_mapping.get('IPProtocol', [])
ProtocolsOf(protocol_mapping) == Get(protocol_mapping, "IPProtocol", <<>>)

\* corresponding_ports = protocol_mapping.get('ports', [])
PortsOf(protocol_mapping) == Get(protocol_mapping, "ports", <<>>)

\* for protocol_mapping in protocol_mappings; ctx holds the locals of
\* from_json that the loops read.
RECURSIVE MappingLoop(_, _, _, _, _, _)
MappingLoop(ctx, identifier, ip_addr, ip_bits, k, rules) ==
  IF k > Len(ctx.protocol_mappings) THEN Return(rules)
  ELSE LET protocol_mapping == ctx.protocol_mappings[k]
           ip_protocols == ProtocolsOf(protocol_mapping)
           corresponding_ports == PortsOf(protocol_mapping)
           flattened_ports == _flatten_ports(corresponding_ports, ctx.ord)
       IN  IF Raised(flattened_ports) THEN flattened_ports
           ELSE MappingLoop(ctx, identifier, ip_addr, ip_bits, k + 1,
                  rules \o
                  [l \in DOMAIN ip_protocols |->
                     FirewallRule(ctx.creation_timestamp, ctx.priority, ip_addr,
                                  ip_bits, identifier, ctx.action,
                                  ip_protocols[l], flattened_ports.value,
                                  ctx.direction, ctx.disabled)])

\* for (ip_addr, ip_bits) in ip_addr_bits_list
RECURSIVE CidrLoop(_, _, _, _)
CidrLoop(ctx, identifier, j, rules) ==
  IF j > Len(ctx.ip_addr_bits_list) THEN Return(rules)
  ELSE LET pair == ctx.ip_addr_bits_list[j]
       IN  IF Len(pair) # 2 THEN Raise("ValueError")
           ELSE LET r == MappingLoop(ctx, identifier, pair[1], pair[2], 1, rules)
                IN  IF Raised(r) THEN r
                    ELSE CidrLoop(ctx, identifier, j + 1, r.value)

\* for identifier in identifiers
RECURSIVE IdentifierLoop(_, _, _)
IdentifierLoop(ctx, i, rules) ==
  IF i > Len(ctx.identifiers) THEN Return(rules)
  ELSE LET r == CidrLoop(ctx, ctx.identifiers[i], 1, rules)
       IN  IF Raised(r) THEN r ELSE IdentifierLoop(ctx, i + 1, r.value)

from_json(d, ord) ==
  \* direction.upper() on None
  IF "direction" \notin DOMAIN d THEN Raise("AttributeError")
  \* iterating None in the list comprehension
  ELSE IF RangeKeyOf(d["direction"]) \notin DOMAIN d THEN Raise("TypeError")
  ELSE
    LET action == ActionOf(d)
        ip_addrs_cidr == d[RangeKeyOf(d["direction"])]
    IN  IdentifierLoop(
          [action |-> action,
           identifiers |-> IdentifiersOf(d),
           direction |-> d["direction"],
           ip_addr_bits_list |->
             [j \in DOMAIN ip_addrs_cidr |-> Split(ip_addrs_cidr[j], "/")],
           protocol_mappings |-> Get(d, action, <<>>),
           creation_timestamp |-> Get(d, "creationTimestamp", None),
           priority |-> Get(d, "priority", None),
           disabled |-> DisabledOf(d),
           ord |-> ord],
          1, <<>>)

(***************************************************************************)
(* Inputs of _flatten_ports: sequences of at most MaxPortSpecs tokens.     *)
(***************************************************************************)
PortTokens ==
  { <<"1">>, <<"3">>, <<"1", "2">>,
    <<"1", "-", "3">>, <<"2", "-", "2">>, <<"2", "-", "1", "2">>,
    <<"3", "-", "1">>,
    <<"1", "-", "2", "-", "3">>,
    <<"1", "-">>, <<"-", "3">>, <<"x">>, <<"1", "-", "x">>, <<>> }

SeqsUpTo(S, n) == UNION {[1..k -> S] : k \in 0..n}

PortLists == SeqsUpTo(PortTokens, MaxPortSpecs)

InitPorts ==
  /\ pc = "call"
  /\ op = "_flatten_ports"
  /\ json_dict = <<>>
  /\ ports \in PortLists
  /\ order \in Orders
  /\ result = Pending

(***************************************************************************)
(* Inputs of from_json: parsed resources.                                  *)
(***************************************************************************)
\* A key that may be absent: the empty object, or the key with one value.
Opt(k, vs) == {<<>>} \cup {k :> v : v \in vs}
Req(k, vs) == {k :> v : v \in vs}

\* The first n elements of the universe u, repeated cyclically.
Cycle(u, n) == [i \in 1..n |-> u[((i - 1) % Len(u)) + 1]]

ServiceAccounts == <<"sa1@p", "sa2@p">>
Tags == <<"web", "db">>

\* "10/8", "192/16"; and malformed: "10" (no slash), "10/8/1" (two slashes).
GoodCidrs == << <<"1", "0", "/", "8">>, <<"1", "9", "2", "/", "1", "6">> >>
BadCidrs == { <<"1", "0">>, <<"1", "0", "/", "8", "/", "1">> }

GoodCidrLists == {Cycle(GoodCidrs, n) : n \in 0..MaxCidrs}

\* Range lists with at most one malformed entry, at any position.
CidrLists ==
  GoodCidrLists \cup
  UNION {{[g EXCEPT ![p] = b] : p \in DOMAIN g, b \in BadCidrs} : g \in GoodCidrLists}

Entry(protocols, pts) == ("IPProtocol" :> protocols) @@ ("ports" :> pts)

Entries ==
  { Entry(<<"tcp">>, << <<"1", "-", "3">> >>),
    Entry(<<"tcp", "udp">>, << <<"3">>, <<"1", "-", "3">>, <<"1", "2">> >>),
    "IPProtocol" :> <<"udp">>,
    Entry(<<"icmp">>, <<>>),
    "ports" :> << <<"1">> >>,
    Entry(<<"tcp">>, << <<"x">> >>) }

PermissionLists == SeqsUpTo(Entries, MaxEntries)

BaseAllowed == << Entry(<<"tcp">>, << <<"1", "-", "3">> >>) >>
BaseDenied == << Entry(<<"udp">>, << <<"3">> >>) >>
OtherLists == {BaseAllowed, BaseDenied, <<>>}

Directions ==
  { INGRESS,
    <<"i", "n", "g", "r", "e", "s", "s">>,
    <<"I", "n", "g", "r", "e", "s", "s">>,
    <<"E", "G", "R", "E", "S", "S">>,
    <<"e", "g", "r", "e", "s", "s">>,
    <<"I", "N", "G", "R", "E", "S">> }

DisabledValues ==
  { JBool("false"), JBool("true"), JStr("false"), JStr("true"),
    JStr("False"), JStr("") }

Base(k) ==
  CASE k = "allowed" -> "allowed" :> BaseAllowed
    [] k = "targetServiceAccounts" -> "targetServiceAccounts" :> <<ServiceAccounts[1]>>
    [] k = "direction" -> "direction" :> INGRESS
    [] k = "sourceRanges" -> "sourceRanges" :> <<GoodCidrs[1]>>
    [] k = "creationTimestamp" -> "creationTimestamp" :> JStr("2018-02-28")
    [] k = "priority" -> "priority" :> JNum(0)

\* Identifiers x range entries x permission entries.
CrossProductResources ==
  { a @@ i @@ Base("direction") @@ r @@ Base("priority")
      : a \in Req("allowed", PermissionLists),
        i \in Req("targetServiceAccounts",
                  {Cycle(ServiceAccounts, n) : n \in 0..MaxIdentifiers}),
        r \in Req("sourceRanges", CidrLists) }

\* Presence of "allowed" and "denied".
ActionResources ==
  { a @@ dn @@ Base("targetServiceAccounts") @@ Base("direction")
      @@ Base("sourceRanges")
      : a \in Opt("allowed", PermissionLists), dn \in Opt("denied", OtherLists) }
  \cup
  { a @@ dn @@ Base("targetServiceAccounts") @@ Base("direction")
      @@ Base("sourceRanges")
      : a \in Opt("allowed", OtherLists), dn \in Opt("denied", PermissionLists) }

\* Presence of "targetServiceAccounts" and "targetTags".
IdentifierResources ==
  { Base("allowed") @@ sa @@ tg @@ Base("direction") @@ r
      : sa \in Opt("targetServiceAccounts",
                   SeqsUpTo(Range(ServiceAccounts), MaxIdentifiers)),
        tg \in Opt("targetTags", SeqsUpTo(Range(Tags), MaxIdentifiers)),
        r \in Req("sourceRanges", CidrLists) }

\* "direction" and the two range lists.
DirectionResources ==
  { Base("allowed") @@ Base("targetServiceAccounts") @@ dr @@ sr @@ ds
      : dr \in Opt("direction", Directions),
        sr \in Opt("sourceRanges", CidrLists),
        ds \in Opt("destinationRanges", CidrLists) }

\* "disabled" and the fields copied verbatim.
DisabledResources ==
  { Base("allowed") @@ i @@ Base("direction") @@ Base("sourceRanges")
      @@ ct @@ pr @@ db
      : i \in Req("targetServiceAccounts",
                  {Cycle(ServiceAccounts, n) : n \in 0..MaxIdentifiers}),
        ct \in Opt("creationTimestamp", {JStr("2018-02-28")}),
        pr \in Opt("priority", {JNum(0), JNum(1000)}),
        db \in Opt("disabled", DisabledValues) }

Resources ==
  CrossProductResources \cup ActionResources \cup IdentifierResources
    \cup DirectionResources \cup DisabledResources

InitJson ==
  /\ pc = "call"
  /\ op = "from_json"
  /\ json_dict \in Resources
  /\ ports = <<>>
  /\ order \in Orders
  /\ result = Pending

Init == InitPorts \/ InitJson

(***************************************************************************)
(* The two calls.                                                          *)
(***************************************************************************)
call_flatten_ports ==
  /\ pc = "call"
  /\ op = "_flatten_ports"
  /\ result' = _flatten_ports(ports, order)
  /\ pc' = "done"
  /\ UNCHANGED <<op, json_dict, ports, order>>

call_from_json ==
  /\ pc = "call"
  /\ op = "from_json"
  /\ result' = from_json(json_dict, order)
  /\ pc' = "done"
  /\ UNCHANGED <<op, json_dict, ports, order>>

Next == call_flatten_ports \/ call_from_json

Spec == Init /\ [][Next]_vars

(***************************************************************************)
(* Vocabulary of the properties, stated without the operators above.       *)
(***************************************************************************)
Done(o) == pc = "done" /\ op = o

NoDuplicates(xs) == \A i, j \in DOMAIN xs : xs[i] = xs[j] => i = j

Without(d, k) == [x \in DOMAIN d \ {k} |-> d[x]]

IsDecimal(s) == s # <<>> /\ \A i \in DOMAIN s : s[i] \in Digits

Hyphens(tok) == {i \in DOMAIN tok : tok[i] = "-"}

\* "A-B": two decimal integers joined by one hyphen.
IsTwoPartRange(tok) ==
  /\ Cardinality(Hyphens(tok)) = 1
  /\ \A h \in Hyphens(tok) :
       /\ IsDecimal(SubSeq(tok, 1, h - 1))
       /\ IsDecimal(SubSeq(tok, h + 1, Len(tok)))

Low(tok) == DecimalValue(SubSeq(tok, 1, Min(Hyphens(tok)) - 1))
High(tok) == DecimalValue(SubSeq(tok, Min(Hyphens(tok)) + 1, Len(tok)))

WellFormedToken(tok) == IsDecimal(tok) \/ IsTwoPartRange(tok)
ReversedRange(tok) == IsTwoPartRange(tok) /\ Low(tok) > High(tok)
ValidPortSpec(tok) ==
  IsDecimal(tok) \/ (IsTwoPartRange(tok) /\ Low(tok) <= High(tok))

\* The integers a valid port specification denotes.
Denoted(tok) ==
  IF IsDecimal(tok) THEN {DecimalValue(tok)} ELSE Low(tok)..High(tok)

IndexPermutations(n) ==
  {f \in [1..n -> 1..n] : \A i, j \in 1..n : f[i] = f[j] => i = j}

Slashes(c) == {i \in DOMAIN c : c[i] = "/"}
WellFormedCidr(c) == Cardinality(Slashes(c)) = 1

LowerChar(c) ==
  CASE c = "I" -> "i" [] c = "N" -> "n" [] c = "G" -> "g" [] c = "R" -> "r"
    [] c = "E" -> "e" [] c = "S" -> "s" [] OTHER -> c
Lower(s) == [i \in DOMAIN s |-> LowerChar(s[i])]
IsIngress(s) == Lower(s) = <<"i", "n", "g", "r", "e", "s", "s">>
IsEgress(s) == Lower(s) = <<"e", "g", "r", "e", "s", "s">>

StatedAction(d) == IF "allowed" \in DOMAIN d THEN "allowed" ELSE "denied"
StatedEntries(d) ==
  IF "allowed" \in DOMAIN d THEN d["allowed"]
  ELSE IF "denied" \in DOMAIN d THEN d["denied"]
  ELSE <<>>
StatedIdentifiers(d) ==
  IF "targetServiceAccounts" \in DOMAIN d THEN d["targetServiceAccounts"]
  ELSE IF "targetTags" \in DOMAIN d THEN d["targetTags"]
  ELSE <<>>
StatedRangeKey(d) ==
  IF IsIngress(d["direction"]) THEN "sourceRanges" ELSE "destinationRanges"
StatedProtocols(e) == IF "IPProtocol" \in DOMAIN e THEN e["IPProtocol"] ELSE <<>>
StatedPorts(e) == IF "ports" \in DOMAIN e THEN e["ports"] ELSE <<>>

RECURSIVE ProtocolCount(_, _)
\* The number of protocol names in the first k entries.
ProtocolCount(entries, k) ==
  IF k = 0 THEN 0
  ELSE ProtocolCount(entries, k - 1) + Len(StatedProtocols(entries[k]))

\* The position, in the returned list, of the record of identifier i, range
\* entry j, permission entry k and protocol name l of that entry.
Position(d, i, j, k, l) ==
  LET M == Len(d[StatedRangeKey(d)])
      P == ProtocolCount(StatedEntries(d), Len(StatedEntries(d)))
  IN  ((i - 1) * M + (j - 1)) * P + ProtocolCount(StatedEntries(d), k - 1) + l

Combinations(d) ==
  LET entries == StatedEntries(d)
      widest == Max({0} \cup {Len(StatedProtocols(e)) : e \in Range(entries)})
  IN  { c \in (DOMAIN StatedIdentifiers(d)) \X (DOMAIN d[StatedRangeKey(d)])
               \X (DOMAIN entries) \X (1..widest) :
          c[4] <= Len(StatedProtocols(entries[c[3]])) }

Accepted == Done("from_json") /\ Returned(result)

(***************************************************************************)
(* Properties of _flatten_ports.                                           *)
(***************************************************************************)
AllValid == \A n \in DOMAIN ports : ValidPortSpec(ports[n])

\* C2: for a sequence of valid port specifications (single integers and
\* ranges A-B with A <= B), _flatten_ports returns a list without duplicates
\* whose elements are exactly the union of what the specifications denote,
\* both bounds of every range included; the set of elements is the same for
\* every permutation of the input and for every iteration order of the set.
C2_ExpandIsUnion ==
  (Done("_flatten_ports") /\ AllValid) =>
    /\ Returned(result)
    /\ NoDuplicates(result.value)
    /\ Range(result.value) = UNION {Denoted(ports[n]) : n \in DOMAIN ports}
    /\ \A f \in IndexPermutations(Len(ports)) : \A ord \in Orders :
         LET permuted == _flatten_ports([n \in DOMAIN ports |-> ports[f[n]]], ord)
         IN  Returned(permuted) /\ Range(permuted.value) = Range(result.value)

\* C2 witness: a range and a specification that overlaps it, expanded.
C2_Witness ==
  /\ Done("_flatten_ports")
  /\ AllValid
  /\ Len(ports) = 2
  /\ \E n \in DOMAIN ports : IsTwoPartRange(ports[n]) /\ Low(ports[n]) < High(ports[n])
  /\ \E m, n \in DOMAIN ports : m # n /\ Denoted(ports[m]) \cap Denoted(ports[n]) # {}
  /\ Returned(result)
  /\ Len(result.value) = 3

\* C5: _flatten_ports applied to a sequence that contains a range whose low
\* bound exceeds its high bound raises an error and returns no port list.
C5_ReversedRangeFails ==
  (Done("_flatten_ports") /\ \E n \in DOMAIN ports : ReversedRange(ports[n]))
    => Raised(result)

\* C6: _flatten_ports raises an error for every sequence that contains a
\* token that is neither a decimal integer nor two decimal integers joined
\* by one hyphen.
C6_MalformedTokenFails ==
  (Done("_flatten_ports") /\ \E n \in DOMAIN ports : ~WellFormedToken(ports[n]))
    => Raised(result)

(***************************************************************************)
(* Properties of from_json.                                                *)
(***************************************************************************)
RecordAt(c) == result.value[Position(json_dict, c[1], c[2], c[3], c[4])]

C3_DisabledFlag ==
  Accepted =>
    \A n \in DOMAIN result.value :
      result.value[n].disabled
        = ~ ("disabled" \in DOMAIN json_dict
              /\ json_dict["disabled"] \in {JBool("false"), JStr("false")})

SelectedRangePresent ==
  /\ "direction" \in DOMAIN json_dict
  /\ StatedRangeKey(json_dict) \in DOMAIN json_dict

SelectedRange == json_dict[StatedRangeKey(json_dict)]

\* C7: when the range list the direction selects contains an entry that
\* does not split on "/" into exactly two parts, from_json raises an error
\* and returns no list, whatever the other fields are.
C7_MalformedCidrFails ==
  (Done("from_json") /\ SelectedRangePresent
     /\ \E j \in DOMAIN SelectedRange : ~WellFormedCidr(SelectedRange[j]))
    => Raised(result)

RestValid ==
  /\ SelectedRangePresent
  /\ \A j \in DOMAIN SelectedRange : WellFormedCidr(SelectedRange[j])

\* The protocol names of the records, in order.
RecordProtocols == [n \in DOMAIN result.value |-> result.value[n].ip_protocol]

RECURSIVE ProtocolNames(_)
ProtocolNames(entries) ==
  IF entries = <<>> THEN <<>>
  ELSE StatedProtocols(Head(entries)) \o ProtocolNames(Tail(entries))

RECURSIVE Repeated(_, _)
Repeated(xs, n) == IF n = 0 THEN <<>> ELSE xs \o Repeated(xs, n - 1)

FromOnly(key) ==
  /\ \A n \in DOMAIN result.value : result.value[n].action = key
  /\ RecordProtocols
       = Repeated(ProtocolNames(json_dict[key]),
                  Len(StatedIdentifiers(json_dict)) * Len(SelectedRange))

\* C8: with "allowed" present the action of every record is allowed and the
\* permission list is taken from "allowed" alone, "denied" having no effect;
\* otherwise the action is denied and the list is taken from "denied"; with
\* neither key and the rest valid, from_json returns the empty list.
C8_ActionByKey ==
  Done("from_json") =>
    /\ "allowed" \in DOMAIN json_dict =>
         /\ (Returned(result) => FromOnly("allowed"))
         /\ result = from_json(Without(json_dict, "denied"), order)
    /\ ("allowed" \notin DOMAIN json_dict /\ "denied" \in DOMAIN json_dict) =>
         (Returned(result) => FromOnly("denied"))
    /\ ("allowed" \notin DOMAIN json_dict /\ "denied" \notin DOMAIN json_dict
          /\ RestValid) =>
         result = Return(<<>>)

\* C8 witness: both keys present with different lists, and records returned.
C8_Witness ==
  /\ Accepted
  /\ "allowed" \in DOMAIN json_dict
  /\ "denied" \in DOMAIN json_dict
  /\ ProtocolNames(json_dict["allowed"]) # ProtocolNames(json_dict["denied"])
  /\ ProtocolNames(json_dict["denied"]) # <<>>
  /\ result.value # <<>>

\* C8 witness of the last case: neither key, the rest valid, nothing returned.
C8_WitnessNeither ==
  /\ Done("from_json")
  /\ "allowed" \notin DOMAIN json_dict
  /\ "denied" \notin DOMAIN json_dict
  /\ RestValid
  /\ result = Return(<<>>)

\* C9: with "targetServiceAccounts" present the identifier of every record
\* is one of its elements and the elements of "targetTags" appear in no
\* record; otherwise the identifier is an element of "targetTags"; with
\* neither key and a valid direction and range list, from_json returns the
\* empty list.
C9_IdentifierByKey ==
  Done("from_json") =>
    /\ "targetServiceAccounts" \in DOMAIN json_dict =>
         /\ (Returned(result) =>
              \A n \in DOMAIN result.value :
                /\ result.value[n].identifier
                     \in Range(json_dict["targetServiceAccounts"])
                /\ ("targetTags" \in DOMAIN json_dict =>
                     result.value[n].identifier \notin Range(json_dict["targetTags"])))
         /\ result = from_json(Without(json_dict, "targetTags"), order)
    /\ ("targetServiceAccounts" \notin DOMAIN json_dict
          /\ "targetTags" \in DOMAIN json_dict /\ Returned(result)) =>
         /\ \A n \in DOMAIN result.value :
              result.value[n].identifier \in Range(json_dict["targetTags"])
         /\ (json_dict["targetTags"] = <<>> => result.value = <<>>)
    /\ ("targetServiceAccounts" \notin DOMAIN json_dict
          /\ "targetTags" \notin DOMAIN json_dict /\ RestValid) =>
         result = Return(<<>>)

\* C9 witness: both keys present and non-empty, and records returned.
C9_Witness ==
  /\ Accepted
  /\ "targetServiceAccounts" \in DOMAIN json_dict
  /\ "targetTags" \in DOMAIN json_dict
  /\ json_dict["targetTags"] # <<>>
  /\ Len(result.value) = 2

RecordCidrs ==
  {result.value[n].ip_addr \o <<"/">> \o result.value[n].ip_bits
     : n \in DOMAIN result.value}

\* What C10 says of the range lists: with "direction" equal to INGRESS
\* ignoring case the block of every record is an entry of "sourceRanges" and
\* "destinationRanges" contributes nothing; otherwise the converse.
RangeBySelection ==
  IF IsIngress(json_dict["direction"])
    THEN /\ "sourceRanges" \in DOMAIN json_dict
         /\ RecordCidrs \subseteq Range(json_dict["sourceRanges"])
         /\ result = from_json(Without(json_dict, "destinationRanges"), order)
    ELSE /\ "destinationRanges" \in DOMAIN json_dict
         /\ RecordCidrs \subseteq Range(json_dict["destinationRanges"])
         /\ result = from_json(Without(json_dict, "sourceRanges"), order)

====
